---- MODULE Spec2Model ----
(***************************************************************************)
(* A model of corpus.py (class Corpus): the corpus aggregator              *)
(* (add_document), the vocabulary builder (create_vocab,                   *)
(* set_unknown_token, add_token_to_vocab), the indexer                     *)
(* (create_simple_index_list), the window expander                         *)
(* (create_windowed_index_list), the sequence chunker                      *)
(* (create_sequence_lists) and the batcher (create_batches).               *)
(*                                                                         *)
(* A token is a Python str, modelled as the sequence of its character      *)
(* codes, so that "<" + t + ">" and the str ordering used by sorted() are  *)
(* computed and not assumed.  None is modelled as the empty sequence for   *)
(* an optional str/list/dict and as NoneInt for an optional int.           *)
(***************************************************************************)
EXTENDS Integers, Sequences, FiniteSets, TLC

VARIABLES
    num_documents,      \* self.num_documents
    num_sequences,      \* self.num_sequences
    num_tokens,         \* self.num_tokens
    num_types,          \* self.num_types
    type_list,          \* self.type_list
    type_index_dict,    \* self.type_index_dict
    type_freq_dict,     \* self.type_freq_dict (a Counter: token -> count)
    vocab_size,         \* self.vocab_size (NoneInt before the first build)
    vocab_list,         \* self.vocab_list
    vocab_index_dict,   \* self.vocab_index_dict
    unknown_token,      \* self.unknown_token (None before it is resolved)
    build,              \* the arguments and outcome of the latest create_vocab
    call,               \* the latest call: its name and arguments
    ret                 \* what that call returned or raised

vars == <<num_documents, num_sequences, num_tokens, num_types,
          type_list, type_index_dict, type_freq_dict, vocab_size, vocab_list,
          vocab_index_dict, unknown_token, build, call, ret>>

corpus_vars == <<num_documents, num_sequences, num_tokens,
                 num_types, type_list, type_index_dict, type_freq_dict>>

vocab_vars == <<vocab_size, vocab_list, vocab_index_dict, unknown_token, build>>

-----------------------------------------------------------------------------
(* Bounds of the model. *)

MaxTokens == 3      \* tokens of all the documents added to one corpus
MaxWrap == 1        \* deepest "<...>" nesting of an UNK-like token in a document
MaxInclude == 2     \* length of an include_list
MaxExclude == 1     \* length of an exclude_list
MaxVocabArg == 3    \* largest explicit vocab_size argument
MaxNamed == 2       \* tokens named in the lists, plus one for an explicit size
MaxFlat == 2        \* length of a token list handed to the indexer
MaxIndex == 3       \* largest vocabulary index in an index list
MaxIndexLen == 3    \* length of an index list
MaxWindow == 2      \* largest window_size
MaxSequenceLength == 4  \* largest sequence_length given to create_sequence_lists
MaxChunks == 5      \* chunks (or stream elements) given to create_batches
MaxChunkLength == 4 \* length of the chunks given to create_batches
MaxBatchSize == 3   \* largest batch_size

-----------------------------------------------------------------------------
(* Values. *)

NoneInt == -1
None == <<>>
EmptyDict == <<>>

\* "<UNK>", the default argument of set_unknown_token
UNK == <<60, 85, 78, 75, 62>>

\* "<" + unknown_token + ">"
Wrap(unknown_token_arg) == <<60>> \o unknown_token_arg \o <<62>>

RECURSIVE Wrapped(_)
Wrapped(k) == IF k <= 1 THEN UNK ELSE Wrap(Wrapped(k - 1))

\* the words "a" and "b", and the UNK-like strings a document may hold
Words == {<<97>>, <<98>>}
Tokens == Words \cup {Wrapped(k) : k \in 1..MaxWrap}

Range(s) == {s[i] : i \in 1..Len(s)}

SeqsUpTo(S, n) == UNION {[1..k -> S] : k \in 0..n}

\* d[key] = value on a Python dict
Put(d, key, value) ==
    [k \in (DOMAIN d) \cup {key} |-> IF k = key THEN value ELSE d[k]]

\* Python's str "<": lexicographic on the character codes, a proper prefix first
RECURSIVE StrLess(_, _)
StrLess(s, t) ==
    IF t = <<>> THEN FALSE
    ELSE IF s = <<>> THEN TRUE
    ELSE IF Head(s) # Head(t) THEN Head(s) < Head(t)
    ELSE StrLess(Tail(s), Tail(t))

-----------------------------------------------------------------------------
(* document.Document: the per-document statistics add_document reads. *)

\* the distinct tokens of a document in order of first occurrence
RECURSIVE DocTypeList(_)
DocTypeList(doc) ==
    IF doc = <<>> THEN <<>>
    ELSE LET init == DocTypeList(SubSeq(doc, 1, Len(doc) - 1))
             last == doc[Len(doc)]
         IN IF last \in Range(init) THEN init ELSE Append(init, last)

DocTypeFreq(doc) ==
    [t \in Range(doc) |-> Cardinality({i \in 1..Len(doc) : doc[i] = t})]

DocNumTypes(doc) == Cardinality(Range(doc))
DocNumTokens(doc) == Len(doc)
DocNumSequences(doc) == 1

-----------------------------------------------------------------------------
(* add_document *)

\* Counter.__iadd__: counts add up, new keys are appended in the other's order
CounterAdd(c, other) ==
    [t \in (DOMAIN c) \cup (DOMAIN other) |->
        (IF t \in DOMAIN c THEN c[t] ELSE 0)
        + (IF t \in DOMAIN other THEN other[t] ELSE 0)]

\* list(counter.keys()) after the +=: insertion order of the keys
KeysAfterAdd(keys, other_keys) ==
    keys \o SelectSeq(other_keys, LAMBDA t : t \notin Range(keys))

\* {key: idx for idx, key in enumerate(keys)}
Enumerate(keys) ==
    [t \in Range(keys) |-> (CHOOSE i \in 1..Len(keys) : keys[i] = t) - 1]

AddDocument(doc) ==
    /\ num_tokens + DocNumTokens(doc) <= MaxTokens
    /\ num_documents' = num_documents + 1
    /\ type_freq_dict' = CounterAdd(type_freq_dict, DocTypeFreq(doc))
    /\ type_list' = KeysAfterAdd(type_list, DocTypeList(doc))
    /\ type_index_dict' = Enumerate(type_list')
    /\ num_types' = num_types + DocNumTypes(doc)
    /\ num_tokens' = num_tokens + DocNumTokens(doc)
    /\ num_sequences' = num_sequences + DocNumSequences(doc)
    /\ call' = [op |-> "add_document"]
    /\ ret' = [raised |-> "none", value |-> None]
    /\ UNCHANGED vocab_vars

-----------------------------------------------------------------------------
(* set_unknown_token, add_token_to_vocab, create_vocab *)

\* the while loop of set_unknown_token, entered with self.unknown_token None
RECURSIVE ResolveUnknown(_, _)
ResolveUnknown(candidate, freq) ==
    IF candidate \in DOMAIN freq
    THEN ResolveUnknown(Wrap(candidate), freq)
    ELSE candidate

SetUnknownToken(current, freq) ==
    IF current = None THEN ResolveUnknown(UNK, freq) ELSE current

\* v is the triple (vocab_list, vocab_index_dict, vocab_size)
AddTokenToVocab(v, token) ==
    [list  |-> Append(v.list, token),
     index |-> Put(v.index, token, v.size),
     size  |-> v.size + 1]

EmptyVocab == [list |-> <<>>, index |-> EmptyDict, size |-> 0]

\* lines 77-81
TargetSize(vocab_size_arg, include_unknown, freq) ==
    IF vocab_size_arg = NoneInt
    THEN IF include_unknown
         THEN Cardinality(DOMAIN freq) + 1
         ELSE Cardinality(DOMAIN freq)
    ELSE vocab_size_arg

\* lines 89-92: the copy of the frequency table without the excluded tokens
Filtered(freq, exclude_list) ==
    [t \in (DOMAIN freq) \ Range(exclude_list) |-> freq[t]]

Without(d, key) == [t \in (DOMAIN d) \ {key} |-> d[t]]

\* lines 98-103: the loop over include_list from position i on
RECURSIVE IncludeLoop(_, _, _, _, _)
IncludeLoop(include_list, i, v, filtered, missing) ==
    IF i > Len(include_list)
    THEN [v |-> v, filtered |-> filtered, missing |-> missing]
    ELSE LET token == include_list[i]
         IN IF token \in DOMAIN filtered
            THEN IncludeLoop(include_list, i + 1, AddTokenToVocab(v, token),
                             Without(filtered, token), missing)
            ELSE IncludeLoop(include_list, i + 1, v, filtered,
                             Append(missing, token))

\* the sort key of line 109: (-count, word)
KeyLess(d, s, t) == d[s] > d[t] \/ (d[s] = d[t] /\ StrLess(s, t))

\* sorted(filtered_freq_dict, key=...)
RECURSIVE SortedKeys(_, _)
SortedKeys(d, S) ==
    IF S = {} THEN <<>>
    ELSE LET m == CHOOSE x \in S : \A y \in S \ {x} : KeyLess(d, x, y)
         IN <<m>> \o SortedKeys(d, S \ {m})

\* SortedLoop breaking one token late (">" for ">=" on line 113)
RECURSIVE SortedLoop_BreaksLate(_, _, _, _)
SortedLoop_BreaksLate(sorted_tokens, i, v, target) ==
    IF i > Len(sorted_tokens) THEN v
    ELSE IF v.size > target THEN v
    ELSE IF sorted_tokens[i] \notin DOMAIN v.index
         THEN SortedLoop_BreaksLate(sorted_tokens, i + 1,
                                    AddTokenToVocab(v, sorted_tokens[i]), target)
         ELSE SortedLoop_BreaksLate(sorted_tokens, i + 1, v, target)

\* lines 112-116: the loop over sorted_tokens from position i on
RECURSIVE SortedLoop(_, _, _, _)
SortedLoop(sorted_tokens, i, v, target) ==
    IF i > Len(sorted_tokens) THEN v
    ELSE IF v.size >= target THEN v
    ELSE IF sorted_tokens[i] \notin DOMAIN v.index
         THEN SortedLoop(sorted_tokens, i + 1,
                         AddTokenToVocab(v, sorted_tokens[i]), target)
         ELSE SortedLoop(sorted_tokens, i + 1, v, target)

\* lines 105-116
FillFromCounter(v, filtered, target) ==
    IF target > v.size
    THEN SortedLoop(SortedKeys(filtered, DOMAIN filtered), 1, v, target)
    ELSE v

\* create_vocab on a corpus whose frequency table is freq and whose
\* unknown_token field is current: the fields it leaves and what it returns
create_vocab(freq, current, vocab_size_arg, include_list, exclude_list, include_unknown) ==
    LET target   == TargetSize(vocab_size_arg, include_unknown, freq)
        unknown  == IF include_unknown THEN SetUnknownToken(current, freq)
                    ELSE current
        v1       == IF include_unknown THEN AddTokenToVocab(EmptyVocab, unknown)
                    ELSE EmptyVocab
        filtered == Filtered(freq, exclude_list)
        inc      == IncludeLoop(include_list, 1, v1, filtered, <<>>)
    IN IF DOMAIN filtered = {}
       THEN [v |-> v1, unknown_token |-> unknown, raised |-> "ValueError",
             value |-> None]
       ELSE [v |-> FillFromCounter(inc.v, inc.filtered, target),
             unknown_token |-> unknown, raised |-> "none",
             value |-> inc.missing]

VocabSizeArgs == {NoneInt} \cup (1..MaxVocabArg)
IncludeLists == SeqsUpTo(Tokens, MaxInclude)

\* one exclude_list per set of tokens: the pops of lines 91-92 commute
RECURSIVE SetToSeq(_)
SetToSeq(S) ==
    IF S = {} THEN <<>>
    ELSE LET m == CHOOSE x \in S : \A y \in S \ {x} : StrLess(x, y)
         IN <<m>> \o SetToSeq(S \ {m})

ExcludeLists == {SetToSeq(S) : S \in {T \in SUBSET Tokens : Cardinality(T) <= MaxExclude}}

\* the (vocab_size, include_list, exclude_list) arguments tried: those that
\* depart from the defaults (None, (), ()) in at most MaxNamed places
BuildArgs ==
    {a \in VocabSizeArgs \X IncludeLists \X ExcludeLists :
        Len(a[2]) + Len(a[3]) + (IF a[1] = NoneInt THEN 0 ELSE 1) <= MaxNamed}

CreateVocab(vocab_size_arg, include_list, exclude_list, include_unknown) ==
    \E r \in {create_vocab(type_freq_dict, unknown_token, vocab_size_arg,
                            include_list, exclude_list, include_unknown)} :
       /\ vocab_list' = r.v.list
       /\ vocab_index_dict' = r.v.index
       /\ vocab_size' = r.v.size
       /\ unknown_token' = r.unknown_token
       /\ call' = [op |-> "create_vocab", vocab_size |-> vocab_size_arg,
                   include_list |-> include_list,
                   exclude_list |-> exclude_list,
                   include_unknown |-> include_unknown]
       /\ build' = [include_unknown |-> include_unknown,
                    raised |-> r.raised]
       /\ ret' = [raised |-> r.raised, value |-> r.value]
       /\ UNCHANGED corpus_vars

-----------------------------------------------------------------------------
(* create_simple_index_list, called as create_index_list is called by      *)
(* create_batched_sequence_lists: on self.vocab_index_dict and             *)
(* self.unknown_token.                                                     *)

\* lines 141-144: vocab_index_dict[unknown_token] raises KeyError when absent
RECURSIVE create_simple_index_list(_, _, _)
create_simple_index_list(flattened_list, index_dict, unknown) ==
    IF flattened_list = <<>> THEN [raised |-> "none", value |-> <<>>]
    ELSE LET token == Head(flattened_list)
             rest  == create_simple_index_list(Tail(flattened_list), index_dict, unknown)
         IN IF token \in DOMAIN index_dict
            THEN IF rest.raised = "none"
                 THEN [raised |-> "none", value |-> <<index_dict[token]>> \o rest.value]
                 ELSE rest
            ELSE IF unknown \in DOMAIN index_dict
                 THEN IF rest.raised = "none"
                      THEN [raised |-> "none",
                            value |-> <<index_dict[unknown]>> \o rest.value]
                      ELSE rest
                 ELSE [raised |-> "KeyError", value |-> None]

FlatLists == SeqsUpTo(Tokens, MaxFlat)

\* before the first create_vocab vocab_index_dict is None: "token in None"
CreateSimpleIndexList(flattened_list) ==
    /\ call' = [op |-> "create_simple_index_list",
                flattened_list |-> flattened_list]
    /\ ret' = IF vocab_size = NoneInt /\ flattened_list # <<>>
              THEN [raised |-> "TypeError", value |-> None]
              ELSE create_simple_index_list(flattened_list, vocab_index_dict,
                                            unknown_token)
    /\ UNCHANGED <<corpus_vars, vocab_vars>>

-----------------------------------------------------------------------------
(* create_windowed_index_list *)

\* [pad_index] * n (empty when n <= 0)
Pad(pad_index, n) == [k \in 1..n |-> pad_index]

\* the body of the inner loop for one (i, j); i is 0-based as in the code,
\* p is padded_index_list and xy the pair of lists built so far
WindowStep(p, window_size, direction, i, j, xy) ==
    IF direction = "both"
    THEN LET a == IF i - j >= 0
                  THEN [x |-> Append(xy.x, p[i + 1]), y |-> Append(xy.y, p[i - j + 1])]
                  ELSE xy
         IN IF i + j < Len(p)
            THEN [x |-> Append(a.x, p[i + 1]), y |-> Append(a.y, p[i + j + 1])]
            ELSE a
    ELSE IF direction = "forward"
    THEN IF i + window_size < Len(p)
         THEN [x |-> Append(xy.x, p[i + 1]), y |-> Append(xy.y, p[i + j + 1])]
         ELSE xy
    ELSE IF i < Len(p) - window_size
         THEN [x |-> Append(xy.x, p[i + j]), y |-> Append(xy.y, p[i + window_size + 1])]
         ELSE xy

\* the two nested loops of lines 161-178, from (i, j) on
RECURSIVE WindowLoop(_, _, _, _, _, _)
WindowLoop(p, window_size, direction, i, j, xy) ==
    IF i >= Len(p) THEN xy
    ELSE IF j > window_size
         THEN WindowLoop(p, window_size, direction, i + 1, 1, xy)
         ELSE WindowLoop(p, window_size, direction, i, j + 1,
                         WindowStep(p, window_size, direction, i, j, xy))

\* lines 155-158
PaddedIndexList(index_list, window_size, direction, pad_index) ==
    IF direction = "backward"
    THEN Pad(pad_index, window_size) \o index_list
    ELSE index_list \o Pad(pad_index, window_size)

create_windowed_index_list(index_list, window_size, direction, pad_index) ==
    IF window_size = 0
    THEN [raised |-> "ValueError", value |-> None]
    ELSE [raised |-> "none",
          value |-> WindowLoop(PaddedIndexList(index_list, window_size,
                                               direction, pad_index),
                               window_size, direction, 0, 1,
                               [x |-> <<>>, y |-> <<>>])]

CreateWindowedIndexList ==
    /\ call.op = "create_windowed_index_list"
    /\ ret.raised = "pending"
    /\ ret' = create_windowed_index_list(call.index_list, call.window_size,
                                         call.direction, call.pad_index)
    /\ UNCHANGED <<corpus_vars, vocab_vars, call>>

-----------------------------------------------------------------------------
(* create_sequence_lists *)

\* lines 242-245: the loop over range(len(padded_list) + 1) from i on (0-based)
RECURSIVE ChunkLoop(_, _, _, _)
ChunkLoop(padded_list, sequence_length, i, sequence_lists) ==
    IF i >= Len(padded_list) + 1 THEN sequence_lists
    ELSE IF i + sequence_length <= Len(padded_list)
         THEN ChunkLoop(padded_list, sequence_length, i + 1,
                        Append(sequence_lists,
                               SubSeq(padded_list, i + 1, i + sequence_length)))
         ELSE ChunkLoop(padded_list, sequence_length, i + 1, sequence_lists)

\* PaddedList padding one more (sequence_length - 1 for sequence_length - 2)
PaddedList_OneMore(index_list, sequence_length, pad_index) ==
    Pad(pad_index, sequence_length - 1) \o index_list

\* line 240
PaddedList(index_list, sequence_length, pad_index) ==
    Pad(pad_index, sequence_length - 2) \o index_list

create_sequence_lists(index_list, sequence_length, pad_index) ==
    IF sequence_length = 2
    THEN [k \in 1..Len(index_list) |-> <<index_list[k]>>]
    ELSE ChunkLoop(PaddedList(index_list, sequence_length, pad_index),
                   sequence_length, 0, <<>>)

CreateSequenceLists ==
    /\ call.op = "create_sequence_lists"
    /\ ret.raised = "pending"
    /\ ret' = [raised |-> "none",
               value |-> create_sequence_lists(call.index_list,
                                               call.sequence_length,
                                               call.pad_index)]
    /\ UNCHANGED <<corpus_vars, vocab_vars, call>>

-----------------------------------------------------------------------------
(* create_batches *)

\* b holds x_batches, y_batches, y_window_batches and the three current batches
NoBatches ==
    [x_batches |-> <<>>, y_batches |-> <<>>, y_window_batches |-> <<>>,
     current_batch_x |-> <<>>, current_batch_y |-> <<>>,
     current_batch_y_window |-> <<>>]

\* lines 263-269: a full batch is emitted; y_window_batches gets current_batch_y
FlushDegenerate(b, batch_size) ==
    IF Len(b.current_batch_x) = batch_size
    THEN [x_batches |-> Append(b.x_batches, b.current_batch_x),
          y_batches |-> Append(b.y_batches, b.current_batch_y),
          y_window_batches |-> Append(b.y_window_batches, b.current_batch_y),
          current_batch_x |-> <<>>, current_batch_y |-> <<>>,
          current_batch_y_window |-> <<>>]
    ELSE b

\* lines 258-269: the loop over range(len(sequence_list) - 1) from i on (0-based)
RECURSIVE DegenerateLoop(_, _, _, _)
DegenerateLoop(sequence_list, batch_size, i, b) ==
    IF i >= Len(sequence_list) - 1 THEN b
    ELSE DegenerateLoop(sequence_list, batch_size, i + 1,
            FlushDegenerate(
                [b EXCEPT !.current_batch_x = Append(@, sequence_list[i + 1]),
                          !.current_batch_y = Append(@, sequence_list[i + 2]),
                          !.current_batch_y_window = Append(@, sequence_list[i + 2])],
                batch_size))

\* lines 275-281
FlushGeneral(b, batch_size) ==
    IF Len(b.current_batch_x) = batch_size
    THEN [x_batches |-> Append(b.x_batches, b.current_batch_x),
          y_batches |-> Append(b.y_batches, b.current_batch_y),
          y_window_batches |-> Append(b.y_window_batches, b.current_batch_y_window),
          current_batch_x |-> <<>>, current_batch_y |-> <<>>,
          current_batch_y_window |-> <<>>]
    ELSE b

\* lines 271-281: the loop over the chunks from the k-th on (1-based)
RECURSIVE GeneralLoop(_, _, _, _)
GeneralLoop(sequence_list, batch_size, k, b) ==
    IF k > Len(sequence_list) THEN b
    ELSE LET sequence == sequence_list[k]
         IN GeneralLoop(sequence_list, batch_size, k + 1,
               FlushGeneral(
                   [b EXCEPT !.current_batch_x =
                                 Append(@, SubSeq(sequence, 1, Len(sequence) - 1)),
                             !.current_batch_y =
                                 Append(@, <<sequence[Len(sequence)]>>),
                             !.current_batch_y_window =
                                 Append(@, Tail(sequence))],
                   batch_size))

\* PadLoop leaving current_batch_y_window uncompleted (line 288 missing)
RECURSIVE PadLoop_NoWindowRow(_, _, _, _)
PadLoop_NoWindowRow(b, batch_size, sequence_length, pad_index) ==
    IF Len(b.current_batch_x) < batch_size
    THEN PadLoop_NoWindowRow(
             [b EXCEPT !.current_batch_x =
                           Append(@, Pad(pad_index, sequence_length)),
                       !.current_batch_y = Append(@, <<pad_index>>)],
             batch_size, sequence_length, pad_index)
    ELSE b

\* lines 285-288: the while loop that completes the last batch
RECURSIVE PadLoop(_, _, _, _)
PadLoop(b, batch_size, sequence_length, pad_index) ==
    IF Len(b.current_batch_x) < batch_size
    THEN PadLoop([b EXCEPT !.current_batch_x =
                               Append(@, Pad(pad_index, sequence_length)),
                           !.current_batch_y = Append(@, <<pad_index>>),
                           !.current_batch_y_window =
                               Append(@, Pad(pad_index, sequence_length))],
                 batch_size, sequence_length, pad_index)
    ELSE b

\* lines 284-292
PadLastBatch(b, batch_size, sequence_length, pad_index) ==
    IF b.current_batch_x # <<>>
    THEN LET c == PadLoop(b, batch_size, sequence_length, pad_index)
         IN [c EXCEPT !.x_batches = Append(@, c.current_batch_x),
                      !.y_batches = Append(@, c.current_batch_y),
                      !.y_window_batches = Append(@, c.current_batch_y_window)]
    ELSE b

\* create_batches completing the last batch in both modes (lines 283-292
\* dedented out of the else branch)
create_batches_PadsBoth(sequence_list, batch_size, sequence_length, pad_index) ==
    LET b == PadLastBatch(
                 IF sequence_length = 1
                 THEN DegenerateLoop(sequence_list, batch_size, 0, NoBatches)
                 ELSE GeneralLoop(sequence_list, batch_size, 1, NoBatches),
                 batch_size, sequence_length, pad_index)
    IN [x_batches |-> b.x_batches, y_batches |-> b.y_batches,
        y_window_batches |-> b.y_window_batches]

create_batches(sequence_list, batch_size, sequence_length, pad_index) ==
    LET b == IF sequence_length = 1
             THEN DegenerateLoop(sequence_list, batch_size, 0, NoBatches)
             ELSE PadLastBatch(GeneralLoop(sequence_list, batch_size, 1, NoBatches),
                               batch_size, sequence_length, pad_index)
    IN [x_batches |-> b.x_batches, y_batches |-> b.y_batches,
        y_window_batches |-> b.y_window_batches]

CreateBatches ==
    /\ call.op = "create_batches"
    /\ ret.raised = "pending"
    /\ ret' = [raised |-> "none",
               value |-> create_batches(call.sequence_list, call.batch_size,
                                        call.sequence_length, call.pad_index)]
    /\ UNCHANGED <<corpus_vars, vocab_vars, call>>

-----------------------------------------------------------------------------
(* The corpus: documents are added and the vocabulary is built and rebuilt *)
(* in any order.                                                           *)

\* a document is one non-empty token sequence
Docs == SeqsUpTo(Tokens, MaxTokens) \ {<<>>}

\* __init__
Constructed ==
    /\ num_documents = 0
    /\ num_sequences = 0
    /\ num_tokens = 0
    /\ num_types = 0
    /\ type_list = <<>>
    /\ type_index_dict = EmptyDict
    /\ type_freq_dict = EmptyDict
    /\ vocab_size = NoneInt
    /\ vocab_list = None
    /\ vocab_index_dict = None
    /\ unknown_token = None
    /\ build = [include_unknown |-> FALSE, raised |-> "never"]

Pending == [raised |-> "pending", value |-> None]

Init ==
    /\ Constructed
    /\ call = [op |-> "__init__"]
    /\ ret = [raised |-> "none", value |-> None]

Next ==
    \/ \E doc \in Docs : AddDocument(doc)
    \/ \E a \in BuildArgs, iu \in BOOLEAN : CreateVocab(a[1], a[2], a[3], iu)

Spec == Init /\ [][Next]_vars

\* builds that give only a size and the include_unknown flag
NextSized ==
    \/ \E doc \in Docs : AddDocument(doc)
    \/ \E vs \in VocabSizeArgs, iu \in BOOLEAN : CreateVocab(vs, <<>>, <<>>, iu)

SpecSized == Init /\ [][NextSized]_vars

\* default builds, and the indexer run on the corpus's own vocabulary
NextIndex ==
    \/ \E doc \in Docs : AddDocument(doc)
    \/ \E iu \in BOOLEAN : CreateVocab(NoneInt, <<>>, <<>>, iu)
    \/ \E flattened_list \in FlatLists : CreateSimpleIndexList(flattened_list)

SpecIndex == Init /\ [][NextIndex]_vars

-----------------------------------------------------------------------------
(* The static list transformations, each applied to inputs drawn at the    *)
(* start.  pad_index is 0, as create_batched_sequence_lists sets it.       *)

PadIndex == 0
Indices == 0..MaxIndex
IndexLists == SeqsUpTo(Indices, MaxIndexLen)
Directions == {"both", "forward", "backward"}

InitWindow ==
    /\ Constructed
    /\ \E index_list \in IndexLists, window_size \in 0..MaxWindow,
          direction \in Directions :
            call = [op |-> "create_windowed_index_list",
                    index_list |-> index_list, window_size |-> window_size,
                    direction |-> direction, pad_index |-> PadIndex]
    /\ ret = Pending

SpecWindow == InitWindow /\ [][CreateWindowedIndexList]_vars

InitSequence ==
    /\ Constructed
    /\ \E index_list \in IndexLists, sequence_length \in 1..MaxSequenceLength :
            call = [op |-> "create_sequence_lists", index_list |-> index_list,
                    sequence_length |-> sequence_length, pad_index |-> PadIndex]
    /\ ret = Pending

SpecSequence == InitSequence /\ [][CreateSequenceLists]_vars

\* n chunks of one length, the stride-1 windows of the stream 1, 2, 3, ...
Chunks(n, chunk_length) ==
    [k \in 1..n |-> [q \in 1..chunk_length |-> k + q - 1]]

\* general mode is handed equal-length chunks, degenerate mode a flat stream
BatchInputs(sequence_length) ==
    IF sequence_length = 1
    THEN SeqsUpTo(1..MaxIndex, MaxChunks)
    ELSE {Chunks(n, cl) : n \in 0..MaxChunks, cl \in 1..MaxChunkLength}

InitBatches ==
    /\ Constructed
    /\ \E sequence_length \in 1..(MaxChunkLength - 1), batch_size \in 1..MaxBatchSize :
          \E sequence_list \in BatchInputs(sequence_length) :
            call = [op |-> "create_batches", sequence_list |-> sequence_list,
                    batch_size |-> batch_size,
                    sequence_length |-> sequence_length, pad_index |-> PadIndex]
    /\ ret = Pending

SpecBatches == InitBatches /\ [][CreateBatches]_vars

-----------------------------------------------------------------------------
(* Properties of the corpus aggregator and the vocabulary builder. *)

RECURSIVE SumCounts(_, _)
SumCounts(d, S) ==
    IF S = {} THEN 0
    ELSE LET t == CHOOSE x \in S : TRUE IN d[t] + SumCounts(d, S \ {t})

Built == call.op = "create_vocab" /\ ret.raised = "none"

\* list and index map agree: no duplicate, every token at its own position
Bijective(list, index, size) ==
    /\ size = Len(list)
    /\ \A i, j \in 1..Len(list) : i # j => list[i] # list[j]
    /\ DOMAIN index = Range(list)
    /\ \A i \in 1..Len(list) : index[list[i]] = i - 1

\* C10: after any sequence of add_document calls num_types is the number of
\* keys of type_freq_dict, num_tokens the sum of its counts, and type_list /
\* type_index_dict list exactly those keys, type_index_dict[type_list[k]] = k.
C10_CountersMatchTable ==
    /\ num_types = Cardinality(DOMAIN type_freq_dict)
    /\ num_tokens = SumCounts(type_freq_dict, DOMAIN type_freq_dict)
    /\ Bijective(type_list, type_index_dict, Cardinality(DOMAIN type_freq_dict))

\* C1: whenever create_vocab returns normally, vocab_size = len(vocab_list),
\* vocab_list has no duplicate and vocab_index_dict maps each of its tokens to
\* exactly its position, covering 0..vocab_size-1.
C1_VocabBijection ==
    Built => Bijective(vocab_list, vocab_index_dict, vocab_size)

\* C2: every vocabulary built with include_unknown=True holds the unknown
\* token at index 0, and that token is not a key of the frequency table at the
\* time of the build, also on a rebuild after further documents were added.
C2_UnknownDistinct ==
    (Built /\ call.include_unknown) =>
        /\ vocab_list # <<>>
        /\ vocab_list[1] = unknown_token
        /\ vocab_index_dict[unknown_token] = 0
        /\ unknown_token \notin DOMAIN type_freq_dict

\* The order C4 describes, as a function of the frequency table and the
\* arguments alone.
NonExcluded(freq, exclude_list) == (DOMAIN freq) \ Range(exclude_list)

\* the include-list positions that enter the vocabulary: present in the
\* non-excluded table and not a repetition of an earlier position
Enters(freq, include_list, exclude_list, i) ==
    /\ include_list[i] \in NonExcluded(freq, exclude_list)
    /\ \A k \in 1..(i - 1) : include_list[k] # include_list[i]

RECURSIVE Pick(_, _, _)
Pick(list, keep(_), i) ==
    IF i > Len(list) THEN <<>>
    ELSE (IF keep(i) THEN <<list[i]>> ELSE <<>>) \o Pick(list, keep, i + 1)

ExpectedIncluded(freq, include_list, exclude_list) ==
    Pick(include_list, LAMBDA i : Enters(freq, include_list, exclude_list, i), 1)

ExpectedMissing(freq, include_list, exclude_list) ==
    Pick(include_list, LAMBDA i : ~Enters(freq, include_list, exclude_list, i), 1)

\* how many tokens of S come before t: more frequent, or as frequent and
\* lexically smaller
Rank(freq, S, t) ==
    Cardinality({u \in S : freq[u] > freq[t]
                           \/ (freq[u] = freq[t] /\ StrLess(u, t))})

ExpectedRest(freq, include_list, exclude_list) ==
    LET S == NonExcluded(freq, exclude_list) \ Range(include_list)
    IN [i \in 1..Cardinality(S) |-> CHOOSE t \in S : Rank(freq, S, t) = i - 1]

Min(a, b) == IF a <= b THEN a ELSE b
Max(a, b) == IF a >= b THEN a ELSE b

ExpectedVocab(freq, vocab_size_arg, include_list, exclude_list, include_unknown) ==
    LET first  == (IF include_unknown THEN <<ResolveUnknown(UNK, freq)>> ELSE <<>>)
                  \o ExpectedIncluded(freq, include_list, exclude_list)
        rest   == ExpectedRest(freq, include_list, exclude_list)
        target == IF vocab_size_arg # NoneInt THEN vocab_size_arg
                  ELSE Cardinality(DOMAIN freq) + (IF include_unknown THEN 1 ELSE 0)
    IN first \o SubSeq(rest, 1, Min(Len(rest), Max(0, target - Len(first))))

\* C4: the built vocabulary is a function of the frequency table, the lists,
\* the target size and the flag: the unknown token, then the include-list
\* tokens present in the non-excluded table in the order given (absent and
\* repeated ones go to the missing list), then the remaining non-excluded
\* tokens by descending count and ascending str order up to the target size.
C4_OrderDetermined ==
    Built =>
        /\ vocab_list = ExpectedVocab(type_freq_dict, call.vocab_size,
                                      call.include_list, call.exclude_list,
                                      call.include_unknown)
        /\ ret.value = ExpectedMissing(type_freq_dict, call.include_list,
                                       call.exclude_list)

\* a build that names only a size t with 1 <= t <= number of distinct types
SizedBuild ==
    /\ Built
    /\ call.include_list = <<>>
    /\ call.exclude_list = <<>>
    /\ 1 <= call.vocab_size
    /\ call.vocab_size <= Cardinality(DOMAIN type_freq_dict)

\* C3 as stated: such a build leaves exactly t entries, plus one for the
\* unknown token when include_unknown is requested, with indices 0..size-1
\* and no gaps or duplicates.
C3_SizePlusUnknown ==
    SizedBuild =>
        /\ vocab_size = call.vocab_size + (IF call.include_unknown THEN 1 ELSE 0)
        /\ Bijective(vocab_list, vocab_index_dict, vocab_size)

\* C3 amended: such a build leaves exactly t entries in all, the unknown
\* token being the first of the t when include_unknown is requested, with
\* indices 0..t-1 and no gaps or duplicates.
C3_SizeIsTarget ==
    SizedBuild =>
        /\ vocab_size = call.vocab_size
        /\ Bijective(vocab_list, vocab_index_dict, call.vocab_size)
        /\ call.include_unknown => vocab_list[1] = unknown_token

C3_Witness ==
    /\ SizedBuild
    /\ call.include_unknown
    /\ call.vocab_size = 2
    /\ Cardinality(DOMAIN type_freq_dict) = 3
    /\ Len(vocab_list) = 2

-----------------------------------------------------------------------------
(* Properties of the indexer. *)

\* the index the claim gives a token: its own, or the unknown token's
IndexOf(token) ==
    IF token \in DOMAIN vocab_index_dict THEN vocab_index_dict[token]
    ELSE vocab_index_dict[unknown_token]

\* C5: create_simple_index_list returns one index per token, in order: a
\* token of the vocabulary gets its index, an absent token the unknown
\* token's index when the vocabulary was built with one, and an absent token
\* makes the call fail with a lookup error when the vocabulary was built with
\* include_unknown=False (also after an earlier build that had included one).
C5_IndexOrLookupError ==
    (call.op = "create_simple_index_list" /\ build.raised = "none") =>
        LET flattened_list == call.flattened_list
            absent == \E i \in 1..Len(flattened_list) :
                          flattened_list[i] \notin DOMAIN vocab_index_dict
        IN IF absent /\ ~build.include_unknown
           THEN ret.raised = "KeyError"
           ELSE /\ ret.raised = "none"
                /\ Len(ret.value) = Len(flattened_list)
                /\ \A i \in 1..Len(flattened_list) :
                       ret.value[i] = IndexOf(flattened_list[i])

-----------------------------------------------------------------------------
(* Properties of the window expander. *)

\* C6: in 'both' mode the two lists have equal length and no pair has a
\* padding position as its center (seen on index lists that do not hold the
\* pad index); on [1,2,3] with window_size 1 and pad 0 the pairs are exactly
\* (1,2),(2,1),(2,3),(3,2),(3,0).
C6_BothPadsOnlyContexts ==
    (call.op = "create_windowed_index_list" /\ ret.raised = "none"
        /\ call.direction = "both") =>
        /\ Len(ret.value.x) = Len(ret.value.y)
        /\ call.pad_index \notin Range(call.index_list) =>
               call.pad_index \notin Range(ret.value.x)
        /\ (call.index_list = <<1, 2, 3>> /\ call.window_size = 1) =>
               /\ ret.value.x = <<1, 2, 2, 3, 3>>
               /\ ret.value.y = <<2, 1, 3, 2, 0>>

-----------------------------------------------------------------------------
(* Properties of the sequence chunker. *)

Chunked == call.op = "create_sequence_lists" /\ ret.raised = "none"

\* C7: with chunk length 2 the chunks are the n singletons [index_list[k]] in
\* order; with chunk length L >= 3 there are max(0, n-1) chunks, the k-th
\* being the L elements from position k of the list left-padded with L-2 pad
\* indices, so that its last element is index_list[k+1], never padding.
C7_ChunksEndOnCorpusIndex ==
    Chunked =>
        LET index_list == call.index_list
            L == call.sequence_length
            n == Len(index_list)
            chunks == ret.value
            padded == [k \in 1..(L - 2 + n) |->
                          IF k <= L - 2 THEN call.pad_index
                          ELSE index_list[k - (L - 2)]]
        IN /\ L = 2 =>
                /\ Len(chunks) = n
                /\ \A k \in 1..n : chunks[k] = <<index_list[k]>>
           /\ L >= 3 =>
                /\ Len(chunks) = Max(0, n - 1)
                /\ \A k \in 1..Len(chunks) :
                       /\ Len(chunks[k]) = L
                       /\ \A q \in 1..L : chunks[k][q] = padded[k + q - 1]
                       /\ chunks[k][L] = index_list[k + 1]

C7_Witness ==
    /\ Chunked
    /\ call.index_list = <<1, 2, 3>>
    /\ call.sequence_length = 3
    /\ ret.value = << <<0, 1, 2>>, <<1, 2, 3>> >>

-----------------------------------------------------------------------------
(* Properties of the batcher. *)

Batched == call.op = "create_batches" /\ ret.raised = "none"

\* the three outputs hold the same number of batches of batch_size rows each
SameShape(out, batch_size) ==
    /\ Len(out.y_batches) = Len(out.x_batches)
    /\ Len(out.y_window_batches) = Len(out.x_batches)
    /\ \A k \in 1..Len(out.x_batches) :
           /\ Len(out.x_batches[k]) = batch_size
           /\ Len(out.y_batches[k]) = batch_size
           /\ Len(out.y_window_batches[k]) = batch_size

\* row r of batch k is taken from chunk (k-1)*batch_size + r, or fabricated
\* from pad_index once the chunks are used up
RowsInOrder(out, chunks, batch_size, sequence_length, pad_index) ==
    /\ Len(out.x_batches) = (Len(chunks) + batch_size - 1) \div batch_size
    /\ \A k \in 1..Len(out.x_batches) : \A r \in 1..batch_size :
           LET c == (k - 1) * batch_size + r
           IN IF c <= Len(chunks)
              THEN /\ out.x_batches[k][r] = SubSeq(chunks[c], 1, Len(chunks[c]) - 1)
                   /\ out.y_batches[k][r] = <<chunks[c][Len(chunks[c])]>>
                   /\ out.y_window_batches[k][r] = Tail(chunks[c])
              ELSE /\ Range(out.x_batches[k][r]) = {pad_index}
                   /\ out.y_batches[k][r] = <<pad_index>>
                   /\ Range(out.y_window_batches[k][r]) = {pad_index}

\* all x rows of a batch have one length, and so have all its y_window rows
UniformRows(out) ==
    \A k \in 1..Len(out.x_batches) :
        \A r1, r2 \in 1..Len(out.x_batches[k]) :
            /\ Len(out.x_batches[k][r1]) = Len(out.x_batches[k][r2])
            /\ Len(out.y_window_batches[k][r1]) = Len(out.y_window_batches[k][r2])

GeneralMode(out) ==
    /\ SameShape(out, call.batch_size)
    /\ RowsInOrder(out, call.sequence_list, call.batch_size,
                   call.sequence_length, call.pad_index)
    /\ UniformRows(out)

\* C8 as stated: in general mode (sequence_length > 1), for any list of
\* equal-length chunks, the three outputs hold the same number of batches of
\* exactly batch_size rows, the rows are taken from the chunks in order, a
\* final partial batch is completed with all-pad rows, and every batch has
\* uniform row length.
C8_AnyChunkLength ==
    (Batched /\ call.sequence_length > 1) => GeneralMode(ret.value)

\* C8 amended: the same, for chunks of sequence_length + 1 elements each, as
\* create_sequence_lists hands them over.
C8_UniformBatches ==
    (Batched /\ call.sequence_length > 1
        /\ \A c \in 1..Len(call.sequence_list) :
               Len(call.sequence_list[c]) = call.sequence_length + 1)
    => GeneralMode(ret.value)

\* 5 chunks of length 3, batch_size 3: 3 real rows, then 2 real rows and 1
\* all-pad row
C8_Witness ==
    /\ Batched
    /\ call.sequence_length = 2
    /\ call.batch_size = 3
    /\ call.sequence_list = Chunks(5, 3)
    /\ Len(ret.value.x_batches) = 2
    /\ ret.value.x_batches[2][3] = <<0, 0>>
    /\ ret.value.y_batches[2][3] = <<0>>
    /\ ret.value.y_window_batches[2][3] = <<0, 0>>

\* C9: in degenerate mode (sequence_length = 1) a stream of n elements gives
\* floor((n-1)/batch_size) batches (none when n <= 1) of exactly batch_size
\* rows, row r of batch k being x = element i, y = element i+1 for the i-th
\* consecutive pair; the trailing pairs are dropped, no pad value is
\* inserted, and y_window_batches equals y_batches.
C9_DegenerateDropsRemainder ==
    (Batched /\ call.sequence_length = 1) =>
        LET stream == call.sequence_list
            n == Len(stream)
            out == ret.value
            b == call.batch_size
        IN /\ Len(out.x_batches) = (IF n <= 1 THEN 0 ELSE (n - 1) \div b)
           /\ SameShape(out, b)
           /\ \A k \in 1..Len(out.x_batches) : \A r \in 1..b :
                  /\ out.x_batches[k][r] = stream[(k - 1) * b + r]
                  /\ out.y_batches[k][r] = stream[(k - 1) * b + r + 1]
                  /\ out.x_batches[k][r] # call.pad_index
                  /\ out.y_batches[k][r] # call.pad_index
           /\ out.y_window_batches = out.y_batches

\* 5 elements, batch_size 3: 4 pairs, one batch, the fourth pair dropped
C9_Witness ==
    /\ Batched
    /\ call.sequence_length = 1
    /\ call.batch_size = 3
    /\ Len(call.sequence_list) = 5
    /\ Len(ret.value.x_batches) = 1
    /\ ret.value.y_batches[1][3] = call.sequence_list[4]

====
